---- MODULE Spec2Model ----
(***************************************************************************)
(* Model of codex-validator-mcp: the ExecutionManager (dual execution     *)
(* path with quota failover), the CodexService backend invoker and its    *)
(* output parser, and the validatePlan flow that drives them.             *)
(*                                                                         *)
(* Text is modelled as a sequence of tokens.  A token stands for a word   *)
(* of the output; tokens are joined by single blanks, except that no      *)
(* blank stands next to the newline token.                                 *)
(***************************************************************************)
EXTENDS Integers, Sequences, FiniteSets, TLC

\* ------------------------------------------------------------------ bounds
NumReqs == 2        \* concurrent validatePlan / execute callers
MaxOutLen == 3      \* tokens captured per output stream of one child process
MaxTextLen == 4     \* tokens of a text handed to parseCodexOutput on its own
MaxViolations == 2  \* Context7 violations handed to determineValidationStatus
MaxPathLen == 2     \* pieces of a path handed to assessImpact
MaxChanges == 3     \* proposed changes handed to createConfirmationRequest
MaxApplied == 2     \* applied descriptions handed to validateChangesApplied
MaxSegments == 3    \* lines and diff blocks of a text handed to parseProposedChanges

Reqs == 1..NumReqs

\* ------------------------------------------------------------ text helpers
NL == "\n"

NumTokens == {"85", "30", "150", "429"}

NumVal(t) ==
  CASE t = "85" -> 85
    [] t = "30" -> 30
    [] t = "150" -> 150
    [] t = "429" -> 429
    [] OTHER -> 0

\* [:\s]  (the blank between two tokens is implicit)
IsSep(t) == t \in {":", NL}

\* [-*\d.]  as the first character of a token
IsBulletStart(t) == t \in {"-", "*"} \cup NumTokens

Min(a, b) == IF a < b THEN a ELSE b
Max(a, b) == IF a > b THEN a ELSE b

\* index of the first token at or after p that is not a separator
RECURSIVE SkipSep(_, _)
SkipSep(text, p) ==
  IF p <= Len(text) /\ IsSep(text[p]) THEN SkipSep(text, p + 1) ELSE p

\* index of the first newline at or after p, Len+1 if there is none
RECURSIVE EndOfLine(_, _)
EndOfLine(text, p) ==
  IF p <= Len(text) /\ text[p] # NL THEN EndOfLine(text, p + 1) ELSE p

\* index of the first token at or after p that is not a newline
RECURSIVE SkipNL(_, _)
SkipNL(text, p) ==
  IF p <= Len(text) /\ text[p] = NL THEN SkipNL(text, p + 1) ELSE p

\* /keyword[:\s]*(\d+)/i : the number of the leftmost match, -1 if none
RECURSIVE MatchNumber(_, _, _)
MatchNumber(text, keyword, p) ==
  IF p > Len(text) THEN -1
  ELSE IF text[p] = keyword
          /\ SkipSep(text, p + 1) <= Len(text)
          /\ text[SkipSep(text, p + 1)] \in NumTokens
       THEN NumVal(text[SkipSep(text, p + 1)])
       ELSE MatchNumber(text, keyword, p + 1)

\* /complexity[:\s]*(low|medium|high)/i : the captured word, "" if none
RECURSIVE MatchLevel(_, _)
MatchLevel(text, p) ==
  IF p > Len(text) THEN ""
  ELSE IF text[p] = "complexity"
          /\ SkipSep(text, p + 1) <= Len(text)
          /\ text[SkipSep(text, p + 1)] \in {"low", "medium", "high"}
       THEN text[SkipSep(text, p + 1)]
       ELSE MatchLevel(text, p + 1)

\* one list line  [-*\d.]\s*[^\n]+\n?  starting at p: the index after it,
\* 0 when no list line starts at p
ItemEnd(text, p) ==
  IF p > Len(text) \/ ~IsBulletStart(text[p]) THEN 0
  ELSE IF text[p] \in NumTokens
       THEN \* the first digit is the bullet, the rest of the line the body
            Min(EndOfLine(text, p + 1) + 1, Len(text) + 1)
       ELSE LET q == SkipNL(text, p + 1) IN
            IF q > Len(text) THEN 0
            ELSE Min(EndOfLine(text, q) + 1, Len(text) + 1)

\* (?: list line )+ from p: the index after the block, 0 when it is empty
RECURSIVE BlockEnd(_, _)
BlockEnd(text, p) ==
  LET e == ItemEnd(text, p) IN
  IF e = 0 THEN 0
  ELSE IF BlockEnd(text, e) = 0 THEN e ELSE BlockEnd(text, e)

\* split a block at the newline tokens
RECURSIVE SplitLines(_)
SplitLines(text) ==
  IF text = <<>> THEN <<>>
  ELSE LET e == EndOfLine(text, 1) IN
       <<SubSeq(text, 1, e - 1)>> \o
       (IF e >= Len(text) THEN <<>> ELSE SplitLines(SubSeq(text, e + 1, Len(text))))

\* line.replace(/^[-*\d.]+\s*/, '').trim()
StripBullet(line) ==
  IF line # <<>> /\ IsBulletStart(line[1]) THEN Tail(line) ELSE line

RECURSIVE NonEmpty(_)
NonEmpty(lines) ==
  IF lines = <<>> THEN <<>>
  ELSE (IF Head(lines) = <<>> THEN <<>> ELSE <<Head(lines)>>) \o NonEmpty(Tail(lines))

extractListItems(block) ==
  NonEmpty([i \in 1..Len(SplitLines(block)) |-> StripBullet(SplitLines(block)[i])])

\* /header[:\s]*\n((?: list line )+)/i : the captured block of the leftmost
\* match, <<>> if none.  The separator run must end in a newline and the
\* block must start right after it.
RECURSIVE MatchSection(_, _, _)
MatchSection(text, header, p) ==
  IF p > Len(text) THEN <<>>
  ELSE LET q == SkipSep(text, p + 1) IN
       IF text[p] = header /\ q > p + 1 /\ text[q - 1] = NL /\ BlockEnd(text, q) # 0
       THEN SubSeq(text, q, BlockEnd(text, q) - 1)
       ELSE MatchSection(text, header, p + 1)

ListSection(text, header) == extractListItems(MatchSection(text, header, 1))

\* faulty variant: no upper limit
Clamp_NoUpper(n) == Max(0, n)

Clamp(n) == Min(100, Max(0, n))

toSuggestion(item) ==
  [type |-> "other", description |-> item, suggestion |-> item, severity |-> "info"]

parseCodexOutput(output) ==
  [feasibility |->
     [score |-> IF MatchNumber(output, "feasibility", 1) >= 0
                THEN Clamp(MatchNumber(output, "feasibility", 1)) ELSE 70,
      blockers |-> ListSection(output, "blockers"),
      risks |-> ListSection(output, "risks"),
      dependencies_missing |-> ListSection(output, "dependencies")],
   codeReview |->
     [suggestions |-> [i \in 1..Len(ListSection(output, "suggestions")) |->
                         toSuggestion(ListSection(output, "suggestions")[i])],
      best_practice_violations |-> ListSection(output, "violations"),
      improvements |-> ListSection(output, "improvements")],
   implementationAnalysis |->
     [completeness |-> IF MatchNumber(output, "completeness", 1) >= 0
                       THEN Clamp(MatchNumber(output, "completeness", 1)) ELSE 70,
      gaps |-> ListSection(output, "gaps"),
      estimated_complexity |-> IF MatchLevel(output, 1) # ""
                               THEN MatchLevel(output, 1) ELSE "medium"],
   changesApplied |-> ListSection(output, "changes applied")]

getDefaultParsedResult ==
  [feasibility |->
     [score |-> 50, blockers |-> <<>>,
      risks |-> << <<"Unable to complete analysis">> >>,
      dependencies_missing |-> <<>>],
   codeReview |->
     [suggestions |-> <<>>, best_practice_violations |-> <<>>, improvements |-> <<>>],
   implementationAnalysis |->
     [completeness |-> 50, gaps |-> << <<"Analysis incomplete">> >>,
      estimated_complexity |-> "medium"],
   changesApplied |-> <<>>]

QuotaTokens == {"rate limit", "429", "billing"}

\* String.prototype.toLowerCase on the tokens that have capitals
toLowerCase(t) ==
  CASE t = "Rate Limit" -> "rate limit"
    [] t = "Config" -> "config"
    [] t = "README" -> "readme"
    [] t = "Update" -> "update"
    [] OTHER -> t

RECURSIVE isQuotaError(_)
isQuotaError(text) ==
  text # <<>> /\ (toLowerCase(Head(text)) \in QuotaTokens \/ isQuotaError(Tail(text)))


\* -------------------------------------------------------------- the state
VARIABLES
  instance,            \* module-level singleton of execution-manager.ts is set
  openai,              \* ExecutionManager.openai is non-null (API key present)
  codexCliAvailable,   \* "null", "true" or "false"
  fallbackTriggered,
  fallbackReason,      \* "null" or one of the two reason strings
  pc,                  \* position of each caller
  cont,                \* what an awaited initialize() returns to
  error,               \* the exception a caller's call ended with, or "none"
  input,               \* validatePlan input: apply_changes, require_confirmation
  previousFallback,    \* local of execute
  invoked,             \* backends invoked by the current execute, in order
  child,               \* Codex child process: "none", "running", "closed"
  settled,             \* the promise of spawnCodex has been resolved
  stdout, stderr,      \* output captured from the child
  timedOut,            \* local of spawnCodex
  timeoutId,           \* the timeout timer of spawnCodex is pending
  killTimer,           \* the SIGKILL timer is pending
  signals,             \* signals sent to the child, in order
  exitCode,            \* `code` of the close event, NoExit before it
  primaryResult,       \* local `result` of execute (outcome of Primary)
  apiCall,             \* chat completion: "none", "pending", "settled"
  abortTimer,          \* the abort timer of executeViaOpenAI is pending
  aborted,             \* controller.abort() has been called
  result,              \* what execute returned
  execStatus,          \* getStatus() as read by validatePlan
  confirmation,        \* confirmation request produced by validatePlan
  fn,                  \* the function under evaluation, "none" in the server
  args,                \* its arguments
  returned             \* <<>> until it returns, then <<its value>>

mgrVars == <<instance, openai, codexCliAvailable, fallbackTriggered, fallbackReason>>
callVars == <<pc, cont, error, input, previousFallback, invoked, primaryResult, result,
              execStatus, confirmation>>
procVars == <<child, settled, stdout, stderr, timedOut, timeoutId, killTimer, signals,
              exitCode>>
apiVars == <<apiCall, abortTimer, aborted>>
fnVars == <<fn, args, returned>>
vars == <<mgrVars, callVars, procVars, apiVars, fnVars>>

QuotaReason == "Codex CLI Pro quota exhausted"
NotInstalledReason == "Codex CLI not installed"

NoInput == [apply_changes |-> FALSE, require_confirmation |-> FALSE]
NoResult == [executionPath |-> "none"]
NoStatus == [fallbackTriggered |-> FALSE, fallbackReason |-> "null", read |-> FALSE]
NoConfirmation == [produced |-> FALSE]
NoExit == -1

\* the module state of execution-manager.ts and the locals of the callers
Constructed ==
  /\ instance = FALSE
  /\ openai \in BOOLEAN
  /\ codexCliAvailable = "null"
  /\ fallbackTriggered = FALSE
  /\ fallbackReason = "null"
  /\ pc = [r \in Reqs |-> "idle"]
  /\ cont = [r \in Reqs |-> "none"]
  /\ error = [r \in Reqs |-> "none"]
  /\ input = [r \in Reqs |-> NoInput]
  /\ previousFallback = [r \in Reqs |-> FALSE]
  /\ invoked = [r \in Reqs |-> <<>>]
  /\ child = [r \in Reqs |-> "none"]
  /\ settled = [r \in Reqs |-> FALSE]
  /\ stdout = [r \in Reqs |-> <<>>]
  /\ stderr = [r \in Reqs |-> <<>>]
  /\ timedOut = [r \in Reqs |-> FALSE]
  /\ timeoutId = [r \in Reqs |-> FALSE]
  /\ killTimer = [r \in Reqs |-> FALSE]
  /\ signals = [r \in Reqs |-> <<>>]
  /\ exitCode = [r \in Reqs |-> NoExit]
  /\ primaryResult = [r \in Reqs |-> NoResult]
  /\ apiCall = [r \in Reqs |-> "none"]
  /\ abortTimer = [r \in Reqs |-> FALSE]
  /\ aborted = [r \in Reqs |-> FALSE]
  /\ result = [r \in Reqs |-> NoResult]
  /\ execStatus = [r \in Reqs |-> NoStatus]
  /\ confirmation = [r \in Reqs |-> NoConfirmation]

NoArgs == <<>>

Init ==
  /\ Constructed
  /\ fn = "none"
  /\ args = NoArgs
  /\ returned = <<>>

modeOf(r) == IF input[r].apply_changes THEN "apply" ELSE "suggest"

\* ------------------------------------------------ getExecutionManager etc.
\* validatePlan up to `await getExecutionManager()`: the factory creates the
\* singleton and awaits its initialize() only when the slot is empty;
\* otherwise it hands out the instance as it is.
ValidatePlanCall(r, apply, confirm) ==
  /\ pc[r] = "idle"
  /\ ~killTimer[r] /\ ~abortTimer[r]
  /\ confirmation' = [confirmation EXCEPT ![r] = NoConfirmation]
  /\ input' = [input EXCEPT ![r] = [apply_changes |-> apply, require_confirmation |-> confirm]]
  /\ IF ~instance
     THEN /\ instance' = TRUE
          /\ pc' = [pc EXCEPT ![r] = "init"]
          /\ cont' = [cont EXCEPT ![r] = "validate"]
     ELSE /\ pc' = [pc EXCEPT ![r] = "ready"]
          /\ UNCHANGED <<instance, cont>>
  /\ UNCHANGED <<openai, codexCliAvailable, fallbackTriggered, fallbackReason, error,
                 previousFallback, invoked, primaryResult, result, execStatus,
                 procVars, apiVars>>
  /\ UNCHANGED fnVars

\* a direct call of the public initialize() on the existing instance: it
\* starts the installation probe
InitializeCall(r) ==
  /\ pc[r] = "idle"
  /\ instance
  /\ pc' = [pc EXCEPT ![r] = "init"]
  /\ cont' = [cont EXCEPT ![r] = "direct"]
  /\ UNCHANGED <<mgrVars, error, input, previousFallback, invoked, primaryResult, result,
                 execStatus, confirmation, procVars, apiVars>>
  /\ UNCHANGED fnVars

\* the probe of initialize() completes with `installed`; the rest of
\* initialize() runs
InitializeDone(r, installed) ==
  /\ pc[r] = "init"
  /\ codexCliAvailable' = IF installed THEN "true" ELSE "false"
  /\ IF ~installed /\ ~openai
     THEN pc' = [pc EXCEPT ![r] = "threw"]
     ELSE pc' = [pc EXCEPT ![r] = IF cont[r] = "validate" THEN "ready" ELSE "idle"]
  /\ error' = [error EXCEPT ![r] = IF ~installed /\ ~openai THEN "config" ELSE "none"]
  /\ cont' = [cont EXCEPT ![r] = "none"]
  /\ UNCHANGED <<instance, openai, fallbackTriggered, fallbackReason, input,
                 previousFallback, invoked, primaryResult, result, execStatus,
                 confirmation, procVars, apiVars>>
  /\ UNCHANGED fnVars

\* faulty variant: the reason survives the reset
resetFallbackState_FlagOnly(r) ==
  /\ pc[r] = "idle"
  /\ instance
  /\ fallbackTriggered' = FALSE
  /\ UNCHANGED <<instance, openai, codexCliAvailable, fallbackReason, callVars, procVars,
                 apiVars>>
  /\ UNCHANGED fnVars

resetFallbackState(r) ==
  /\ pc[r] = "idle"
  /\ instance
  /\ fallbackTriggered' = FALSE
  /\ fallbackReason' = "null"
  /\ UNCHANGED <<instance, openai, codexCliAvailable, callVars, procVars, apiVars>>
  /\ UNCHANGED fnVars


\* ------------------------------------------------------ results of a call
failure(path, mode, rawOutput, rawError, err, quota) ==
  [success |-> FALSE, mode |-> mode, executionPath |-> path,
   rawOutput |-> rawOutput, rawError |-> rawError, error |-> err,
   quotaExhausted |-> quota,
   feasibility |-> getDefaultParsedResult.feasibility,
   codeReview |-> getDefaultParsedResult.codeReview,
   implementationAnalysis |-> getDefaultParsedResult.implementationAnalysis,
   changesApplied |-> getDefaultParsedResult.changesApplied]

\* faulty variant: the timeout branch parses the captured output
closeOutcome_ParseOnTimeout(mode, out, err, wasTimedOut, code) ==
  IF ~wasTimedOut /\ (isQuotaError(err) \/ isQuotaError(out))
  THEN failure("codex_cli", mode, out, err, QuotaReason, TRUE)
  ELSE LET parsed == parseCodexOutput(IF out # <<>> THEN out ELSE err) IN
       [success |-> ~wasTimedOut /\ code = 0, mode |-> mode, executionPath |-> "codex_cli",
        rawOutput |-> out, rawError |-> err,
        error |-> IF wasTimedOut THEN "Codex CLI timed out"
                  ELSE IF code # 0 THEN "Codex CLI exited with code" ELSE "undefined",
        quotaExhausted |-> FALSE,
        feasibility |-> parsed.feasibility,
        codeReview |-> parsed.codeReview,
        implementationAnalysis |-> parsed.implementationAnalysis,
        changesApplied |-> parsed.changesApplied]

\* faulty variant: a quota phrase counts only when the exit code is not 0
closeOutcome_QuotaNeedsFailure(mode, out, err, wasTimedOut, code) ==
  IF wasTimedOut
  THEN failure("codex_cli", mode, out, err, "Codex CLI timed out", FALSE)
  ELSE IF code # 0 /\ (isQuotaError(err) \/ isQuotaError(out))
  THEN failure("codex_cli", mode, out, err, QuotaReason, TRUE)
  ELSE LET parsed == parseCodexOutput(IF out # <<>> THEN out ELSE err) IN
       [success |-> code = 0, mode |-> mode, executionPath |-> "codex_cli",
        rawOutput |-> out, rawError |-> err,
        error |-> IF code # 0 THEN "Codex CLI exited with code" ELSE "undefined",
        quotaExhausted |-> FALSE,
        feasibility |-> parsed.feasibility,
        codeReview |-> parsed.codeReview,
        implementationAnalysis |-> parsed.implementationAnalysis,
        changesApplied |-> parsed.changesApplied]

\* faulty variant: the quota phrases are looked for before timedOut
closeOutcome_QuotaFirst(mode, out, err, wasTimedOut, code) ==
  IF isQuotaError(err) \/ isQuotaError(out)
  THEN failure("codex_cli", mode, out, err, QuotaReason, TRUE)
  ELSE IF wasTimedOut
  THEN failure("codex_cli", mode, out, err, "Codex CLI timed out", FALSE)
  ELSE LET parsed == parseCodexOutput(IF out # <<>> THEN out ELSE err) IN
       [success |-> code = 0, mode |-> mode, executionPath |-> "codex_cli",
        rawOutput |-> out, rawError |-> err,
        error |-> IF code # 0 THEN "Codex CLI exited with code" ELSE "undefined",
        quotaExhausted |-> FALSE,
        feasibility |-> parsed.feasibility,
        codeReview |-> parsed.codeReview,
        implementationAnalysis |-> parsed.implementationAnalysis,
        changesApplied |-> parsed.changesApplied]

\* the outcome the close handler of spawnCodex resolves with
closeOutcome(mode, out, err, wasTimedOut, code) ==
  IF wasTimedOut
  THEN failure("codex_cli", mode, out, err, "Codex CLI timed out", FALSE)
  ELSE IF isQuotaError(err) \/ isQuotaError(out)
  THEN failure("codex_cli", mode, out, err, QuotaReason, TRUE)
  ELSE LET parsed == parseCodexOutput(IF out # <<>> THEN out ELSE err) IN
       [success |-> code = 0, mode |-> mode, executionPath |-> "codex_cli",
        rawOutput |-> out, rawError |-> err,
        error |-> IF code # 0 THEN "Codex CLI exited with code" ELSE "undefined",
        quotaExhausted |-> FALSE,
        feasibility |-> parsed.feasibility,
        codeReview |-> parsed.codeReview,
        implementationAnalysis |-> parsed.implementationAnalysis,
        changesApplied |-> parsed.changesApplied]

\* faulty variant: a spawn error other than ENOENT is reported as quota
\* exhaustion
errorOutcome_AsQuota(mode, enoent) ==
  IF enoent
  THEN failure("codex_cli", mode, <<>>, <<"Codex CLI not found">>, NotInstalledReason, FALSE)
  ELSE failure("codex_cli", mode, <<>>, <<"spawn error">>, "spawn error", TRUE)

\* the outcome the error handler of spawnCodex resolves with
errorOutcome(mode, enoent) ==
  IF enoent
  THEN failure("codex_cli", mode, <<>>, <<"Codex CLI not found">>, NotInstalledReason, FALSE)
  ELSE failure("codex_cli", mode, <<>>, <<"spawn error">>, "spawn error", FALSE)

contains(text, token) == \E i \in 1..Len(text) : text[i] = token

\* the outcome the catch block of executeViaOpenAI returns
catchOutcome(mode, errorMessage) ==
  IF contains(errorMessage, "aborted") \/ contains(errorMessage, "timeout")
  THEN failure("openai_api", mode, <<>>, <<"Request timed out">>,
               "OpenAI API request timed out", FALSE)
  ELSE failure("openai_api", mode, <<>>, errorMessage, "api error",
               contains(errorMessage, "rate limit") \/ contains(errorMessage, "quota")
                 \/ contains(errorMessage, "429"))

\* the outcome executeViaOpenAI returns for a completed chat completion
responseOutcome(mode, content) ==
  LET parsed == parseCodexOutput(content) IN
  [success |-> TRUE, mode |-> mode, executionPath |-> "openai_api",
   rawOutput |-> content, rawError |-> <<>>, error |-> "undefined",
   quotaExhausted |-> FALSE,
   feasibility |-> parsed.feasibility,
   codeReview |-> parsed.codeReview,
   implementationAnalysis |-> parsed.implementationAnalysis,
   changesApplied |-> <<>>]

\* ExecutionManager.getStatus, the two fields validatePlan reports
getStatus == [fallbackTriggered |-> fallbackTriggered, fallbackReason |-> fallbackReason,
              read |-> TRUE]

\* ---------------------------------------------------------------- execute
\* executeViaOpenAI up to its await: arm the abort timer, issue the call
StartSecondary(r) ==
  /\ apiCall' = [apiCall EXCEPT ![r] = "pending"]
  /\ abortTimer' = [abortTimer EXCEPT ![r] = TRUE]
  /\ aborted' = [aborted EXCEPT ![r] = FALSE]
  /\ invoked' = [invoked EXCEPT ![r] = Append(@, "S")]
  /\ pc' = [pc EXCEPT ![r] = "secondary"]

\* execute returns res to validatePlan, which reads getStatus() at once
Return(r, res) ==
  /\ result' = [result EXCEPT ![r] = res]
  /\ execStatus' = [execStatus EXCEPT ![r] = getStatus]
  /\ pc' = [pc EXCEPT ![r] = "executed"]

\* faulty variant: the direct route sets flag and reason on every call
MarkNotInstalled_Always(previous) ==
  /\ fallbackTriggered' = TRUE
  /\ fallbackReason' = NotInstalledReason

\* faulty variant: the direct route leaves flag and reason alone
MarkNotInstalled_Never(previous) ==
  UNCHANGED <<fallbackTriggered, fallbackReason>>

\* `if (!previousFallback) { ... }` of the direct route to Secondary
MarkNotInstalled(previous) ==
  IF ~previous
  THEN /\ fallbackTriggered' = TRUE
       /\ fallbackReason' = NotInstalledReason
  ELSE UNCHANGED <<fallbackTriggered, fallbackReason>>

\* execute from its entry to its first await
ExecuteStart(r) ==
  /\ pc[r] = "ready"
  /\ previousFallback' = [previousFallback EXCEPT ![r] = fallbackTriggered]
  /\ IF codexCliAvailable = "true"
     THEN /\ child' = [child EXCEPT ![r] = "running"]
          /\ settled' = [settled EXCEPT ![r] = FALSE]
          /\ stdout' = [stdout EXCEPT ![r] = <<>>]
          /\ stderr' = [stderr EXCEPT ![r] = <<>>]
          /\ timedOut' = [timedOut EXCEPT ![r] = FALSE]
          /\ timeoutId' = [timeoutId EXCEPT ![r] = TRUE]
          /\ signals' = [signals EXCEPT ![r] = <<>>]
          /\ exitCode' = [exitCode EXCEPT ![r] = NoExit]
          /\ invoked' = [invoked EXCEPT ![r] = Append(@, "P")]
          /\ pc' = [pc EXCEPT ![r] = "primary"]
          /\ UNCHANGED <<fallbackTriggered, fallbackReason, error, killTimer, apiVars>>
     ELSE IF openai
     THEN /\ MarkNotInstalled(fallbackTriggered)
          /\ StartSecondary(r)
          /\ UNCHANGED <<error, procVars>>
     ELSE /\ pc' = [pc EXCEPT ![r] = "threw"]
          /\ error' = [error EXCEPT ![r] = "No execution path available"]
          /\ UNCHANGED <<fallbackTriggered, fallbackReason, invoked, procVars, apiVars>>
  /\ UNCHANGED <<instance, openai, codexCliAvailable, cont, input, primaryResult,
                 result, execStatus, confirmation>>
  /\ UNCHANGED fnVars

\* faulty variants of the continuation below: no failover at all, failover
\* on any failure, and a flag that a successful Primary call clears
AfterPrimary_NoFailover(r, res) ==
  /\ primaryResult' = [primaryResult EXCEPT ![r] = res]
  /\ Return(r, res)
  /\ UNCHANGED <<fallbackTriggered, fallbackReason, invoked, apiVars>>

AfterPrimary_AnyFailure(r, res) ==
  /\ primaryResult' = [primaryResult EXCEPT ![r] = res]
  /\ IF ~res.success /\ openai
     THEN /\ fallbackTriggered' = TRUE
          /\ fallbackReason' = QuotaReason
          /\ StartSecondary(r)
          /\ UNCHANGED <<result, execStatus>>
     ELSE /\ Return(r, res)
          /\ UNCHANGED <<fallbackTriggered, fallbackReason, invoked, apiVars>>

AfterPrimary_ClearOnSuccess(r, res) ==
  /\ primaryResult' = [primaryResult EXCEPT ![r] = res]
  /\ IF res.quotaExhausted /\ openai
     THEN /\ fallbackTriggered' = TRUE
          /\ fallbackReason' = QuotaReason
          /\ StartSecondary(r)
          /\ UNCHANGED <<result, execStatus>>
     ELSE /\ fallbackTriggered' = (fallbackTriggered /\ ~res.success)
          /\ fallbackReason' = IF res.success THEN "null" ELSE fallbackReason
          /\ result' = [result EXCEPT ![r] = res]
          /\ execStatus' = [execStatus EXCEPT ![r] =
               [fallbackTriggered |-> fallbackTriggered', fallbackReason |-> fallbackReason',
                read |-> TRUE]]
          /\ pc' = [pc EXCEPT ![r] = "executed"]
          /\ UNCHANGED <<invoked, apiVars>>

\* execute after `await this.codexService.execute(options)` gave res
AfterPrimary(r, res) ==
  /\ primaryResult' = [primaryResult EXCEPT ![r] = res]
  /\ IF res.quotaExhausted /\ openai
     THEN /\ fallbackTriggered' = TRUE
          /\ fallbackReason' = QuotaReason
          /\ StartSecondary(r)
          /\ UNCHANGED <<result, execStatus>>
     ELSE /\ Return(r, res)
          /\ UNCHANGED <<fallbackTriggered, fallbackReason, invoked, apiVars>>


\* ------------------------------------------- events of the Codex process
ExitCodes == {0, 1}

StdoutChunks == {<<"rate limit">>, <<"feasibility", ":", "30">>,
                 <<"completeness", ":", "150">>}
StderrChunks == {<<"429">>, <<"unknown flag">>, <<"Rate Limit">>}

\* child.stdout.on('data')
StdoutData(r, chunk, limit) ==
  /\ child[r] = "running"
  /\ Len(stdout[r]) + Len(chunk) <= limit
  /\ stdout' = [stdout EXCEPT ![r] = @ \o chunk]
  /\ UNCHANGED <<mgrVars, callVars, apiVars, child, settled, stderr, timedOut,
                 timeoutId, killTimer, signals>>
  /\ UNCHANGED <<fnVars, exitCode>>

\* child.stderr.on('data')
StderrData(r, chunk, limit) ==
  /\ child[r] = "running"
  /\ Len(stderr[r]) + Len(chunk) <= limit
  /\ stderr' = [stderr EXCEPT ![r] = @ \o chunk]
  /\ UNCHANGED <<mgrVars, callVars, apiVars, child, settled, stdout, timedOut,
                 timeoutId, killTimer, signals>>
  /\ UNCHANGED <<fnVars, exitCode>>

\* faulty variant: the timeout is noted but the process is not signalled
TimeoutFires_NoSignal(r) ==
  /\ timeoutId[r]
  /\ timeoutId' = [timeoutId EXCEPT ![r] = FALSE]
  /\ timedOut' = [timedOut EXCEPT ![r] = TRUE]
  /\ UNCHANGED <<mgrVars, callVars, apiVars, child, settled, stdout, stderr, signals,
                 killTimer>>
  /\ UNCHANGED <<fnVars, exitCode>>

\* the timeout callback of spawnCodex
TimeoutFires(r) ==
  /\ timeoutId[r]
  /\ timeoutId' = [timeoutId EXCEPT ![r] = FALSE]
  /\ timedOut' = [timedOut EXCEPT ![r] = TRUE]
  /\ signals' = [signals EXCEPT ![r] = Append(@, "SIGTERM")]
  /\ killTimer' = [killTimer EXCEPT ![r] = TRUE]
  /\ UNCHANGED <<mgrVars, callVars, apiVars, child, settled, stdout, stderr>>
  /\ UNCHANGED <<fnVars, exitCode>>

\* faulty variant: SIGKILL is delivered whether or not the process exited
KillTimerFires_Unconditional(r) ==
  /\ killTimer[r]
  /\ killTimer' = [killTimer EXCEPT ![r] = FALSE]
  /\ signals' = [signals EXCEPT ![r] = Append(@, "SIGKILL")]
  /\ UNCHANGED <<mgrVars, callVars, apiVars, child, settled, stdout, stderr,
                 timedOut, timeoutId>>
  /\ UNCHANGED <<fnVars, exitCode>>

\* the inner callback, 5 s later: kill() reaches only a live process
KillTimerFires(r) ==
  /\ killTimer[r]
  /\ killTimer' = [killTimer EXCEPT ![r] = FALSE]
  /\ signals' = [signals EXCEPT ![r] =
                   IF child[r] = "running" THEN Append(@, "SIGKILL") ELSE @]
  /\ UNCHANGED <<mgrVars, callVars, apiVars, child, settled, stdout, stderr,
                 timedOut, timeoutId>>
  /\ UNCHANGED <<fnVars, exitCode>>

\* child.on('close'), and execute's continuation when this settles the call
ChildClose(r, code) ==
  /\ child[r] = "running"
  /\ child' = [child EXCEPT ![r] = "closed"]
  /\ exitCode' = [exitCode EXCEPT ![r] = code]
  /\ timeoutId' = [timeoutId EXCEPT ![r] = FALSE]
  /\ IF ~settled[r]
     THEN /\ settled' = [settled EXCEPT ![r] = TRUE]
          /\ AfterPrimary(r, closeOutcome(modeOf(r), stdout[r], stderr[r], timedOut[r], code))
     ELSE UNCHANGED <<settled, fallbackTriggered, fallbackReason, pc, invoked,
                      primaryResult, result, execStatus, apiVars>>
  /\ UNCHANGED <<instance, openai, codexCliAvailable, cont, error, input,
                 previousFallback, confirmation, stdout, stderr, timedOut,
                 killTimer, signals>>
  /\ UNCHANGED fnVars

\* child.on('error'), and execute's continuation.  A missing executable
\* fails the spawn itself, before any output or signal.
ChildError(r, enoent) ==
  /\ child[r] = "running"
  /\ ~settled[r]
  /\ enoent => stdout[r] = <<>> /\ stderr[r] = <<>> /\ signals[r] = <<>>
  /\ timeoutId' = [timeoutId EXCEPT ![r] = FALSE]
  /\ settled' = [settled EXCEPT ![r] = TRUE]
  /\ AfterPrimary(r, errorOutcome(modeOf(r), enoent))
  /\ UNCHANGED <<instance, openai, codexCliAvailable, cont, error, input,
                 previousFallback, confirmation, child, stdout, stderr, timedOut,
                 killTimer, signals>>
  /\ UNCHANGED <<fnVars, exitCode>>

\* --------------------------------------- events of the chat completion
ApiContents == {<<>>, <<"feasibility", ":", "85">>, <<"completeness", ":", "150">>}

AbortMessage == <<"Request was", "aborted">>
ApiErrors == {AbortMessage, <<"429", "rate limit">>, <<"Connection error">>,
              <<"socket", "timeout">>}

\* the abort timer of executeViaOpenAI
AbortFires(r) ==
  /\ abortTimer[r]
  /\ abortTimer' = [abortTimer EXCEPT ![r] = FALSE]
  /\ aborted' = [aborted EXCEPT ![r] = TRUE]
  /\ UNCHANGED <<mgrVars, callVars, procVars, apiCall>>
  /\ UNCHANGED fnVars

\* the completion resolves: the try block of executeViaOpenAI runs on
OpenAIResponds(r, content) ==
  /\ apiCall[r] = "pending"
  /\ ~aborted[r]
  /\ apiCall' = [apiCall EXCEPT ![r] = "settled"]
  /\ abortTimer' = [abortTimer EXCEPT ![r] = FALSE]
  /\ Return(r, responseOutcome(modeOf(r), content))
  /\ UNCHANGED <<mgrVars, procVars, aborted, cont, error, input, previousFallback,
                 invoked, primaryResult, confirmation>>
  /\ UNCHANGED fnVars

\* faulty variant: no catch block, the rejection propagates out of execute
OpenAIRejects_Rethrow(r, errorMessage) ==
  /\ apiCall[r] = "pending"
  /\ aborted[r] <=> errorMessage = AbortMessage
  /\ apiCall' = [apiCall EXCEPT ![r] = "settled"]
  /\ pc' = [pc EXCEPT ![r] = "threw"]
  /\ error' = [error EXCEPT ![r] = "api error"]
  /\ UNCHANGED <<mgrVars, procVars, aborted, abortTimer, cont, input, result, execStatus,
                 previousFallback, invoked, primaryResult, confirmation>>
  /\ UNCHANGED fnVars

\* the completion rejects: the catch block of executeViaOpenAI.  An aborted
\* call rejects with the abort error, and only an aborted call does.
OpenAIRejects(r, errorMessage) ==
  /\ apiCall[r] = "pending"
  /\ aborted[r] <=> errorMessage = AbortMessage
  /\ apiCall' = [apiCall EXCEPT ![r] = "settled"]
  /\ Return(r, catchOutcome(modeOf(r), errorMessage))
  /\ UNCHANGED <<mgrVars, procVars, aborted, abortTimer, cont, error, input,
                 previousFallback, invoked, primaryResult, confirmation>>
  /\ UNCHANGED fnVars

\* ------------------------------------------------- the rest of validatePlan
\* validatePlan after execute (the confirmation request is built from the
\* output when apply_changes and require_confirmation are both set), or its
\* rejection; the tool handler answers and the caller is free again.  The
\* caller's slot is reused, so the step is taken once the close event of
\* its child process has been delivered.
Respond(r) ==
  /\ pc[r] \in {"executed", "threw"}
  /\ child[r] # "running"
  /\ confirmation' = [confirmation EXCEPT ![r] =
       [produced |-> pc[r] = "executed" /\ input[r].apply_changes
                       /\ input[r].require_confirmation]]
  /\ pc' = [pc EXCEPT ![r] = "idle"]
  /\ cont' = [cont EXCEPT ![r] = "none"]
  /\ error' = [error EXCEPT ![r] = "none"]
  /\ input' = [input EXCEPT ![r] = NoInput]
  /\ previousFallback' = [previousFallback EXCEPT ![r] = FALSE]
  /\ invoked' = [invoked EXCEPT ![r] = <<>>]
  /\ primaryResult' = [primaryResult EXCEPT ![r] = NoResult]
  /\ result' = [result EXCEPT ![r] = NoResult]
  /\ execStatus' = [execStatus EXCEPT ![r] = NoStatus]
  /\ child' = [child EXCEPT ![r] = "none"]
  /\ settled' = [settled EXCEPT ![r] = FALSE]
  /\ stdout' = [stdout EXCEPT ![r] = <<>>]
  /\ stderr' = [stderr EXCEPT ![r] = <<>>]
  /\ timedOut' = [timedOut EXCEPT ![r] = FALSE]
  /\ signals' = [signals EXCEPT ![r] = <<>>]
  /\ exitCode' = [exitCode EXCEPT ![r] = NoExit]
  /\ apiCall' = [apiCall EXCEPT ![r] = "none"]
  /\ aborted' = [aborted EXCEPT ![r] = FALSE]
  /\ UNCHANGED <<mgrVars, timeoutId, killTimer, abortTimer>>
  /\ UNCHANGED fnVars

\* ----------------------------------------------------- the specifications
\* One caller, every event of a backend invocation.
Solo == {CHOOSE r \in Reqs : \A s \in Reqs : r <= s}

Next ==
  \/ \E r \in Solo, apply \in BOOLEAN, confirm \in BOOLEAN : ValidatePlanCall(r, apply, confirm)
  \/ \E r \in Solo : InitializeCall(r)
  \/ \E r \in Solo, installed \in BOOLEAN : InitializeDone(r, installed)
  \/ \E r \in Solo : resetFallbackState(r)
  \/ \E r \in Solo : ExecuteStart(r)
  \/ \E r \in Solo, chunk \in StdoutChunks : StdoutData(r, chunk, MaxOutLen)
  \/ \E r \in Solo, chunk \in StderrChunks : StderrData(r, chunk, MaxOutLen)
  \/ \E r \in Solo : TimeoutFires(r)
  \/ \E r \in Solo : KillTimerFires(r)
  \/ \E r \in Solo, code \in ExitCodes : ChildClose(r, code)
  \/ \E r \in Solo, enoent \in BOOLEAN : ChildError(r, enoent)
  \/ \E r \in Solo : AbortFires(r)
  \/ \E r \in Solo, content \in ApiContents : OpenAIResponds(r, content)
  \/ \E r \in Solo, errorMessage \in ApiErrors : OpenAIRejects(r, errorMessage)
  \/ \E r \in Solo : Respond(r)

Spec == Init /\ [][Next]_vars

\* Concurrent callers of the shared manager; the backends answer with the
\* few outputs that decide the routing.
NextConc ==
  \/ \E r \in Reqs : ValidatePlanCall(r, FALSE, TRUE)
  \/ \E r \in Reqs : InitializeCall(r)
  \/ \E r \in Reqs, installed \in BOOLEAN : InitializeDone(r, installed)
  \/ \E r \in Reqs : resetFallbackState(r)
  \/ \E r \in Reqs : ExecuteStart(r)
  \/ \E r \in Reqs : StdoutData(r, <<"rate limit">>, 1)
  \/ \E r \in Reqs : ChildClose(r, 0)
  \/ \E r \in Reqs : AbortFires(r)
  \/ \E r \in Reqs : OpenAIResponds(r, <<>>)
  \/ \E r \in Reqs, errorMessage \in {AbortMessage, <<"Connection error">>} :
        OpenAIRejects(r, errorMessage)
  \/ \E r \in Reqs : Respond(r)

SpecConc == Init /\ [][NextConc]_vars


\* One caller under the scheduling the runtime gives: an armed timer fires,
\* a child process that has been signalled closes, and a chat completion
\* whose signal has been aborted rejects.
NextLive ==
  \/ \E r \in Solo : ValidatePlanCall(r, FALSE, TRUE)
  \/ \E r \in Solo, installed \in BOOLEAN : InitializeDone(r, installed)
  \/ \E r \in Solo : ExecuteStart(r)
  \/ \E r \in Solo : StdoutData(r, <<"rate limit">>, 1)
  \/ \E r \in Solo : TimeoutFires(r)
  \/ \E r \in Solo : KillTimerFires(r)
  \/ \E r \in Solo, code \in ExitCodes : ChildClose(r, code)
  \/ \E r \in Solo, enoent \in BOOLEAN : ChildError(r, enoent)
  \/ \E r \in Solo : AbortFires(r)
  \/ \E r \in Solo : OpenAIResponds(r, <<>>)
  \/ \E r \in Solo, errorMessage \in {AbortMessage, <<"Connection error">>} :
        OpenAIRejects(r, errorMessage)
  \/ \E r \in Solo : Respond(r)

Fairness ==
  \A r \in Solo :
    /\ WF_vars(TimeoutFires(r))
    /\ WF_vars(KillTimerFires(r))
    /\ WF_vars(AbortFires(r))
    /\ WF_vars(signals[r] # <<>> /\ \E code \in ExitCodes : ChildClose(r, code))
    /\ WF_vars(aborted[r] /\ OpenAIRejects(r, AbortMessage))

SpecLive == Init /\ [][NextLive]_vars /\ Fairness


\* ------------------------------------------- parseCodexOutput on its own
\* The parser applied to every text of at most MaxTextLen tokens.
ParseAlphabet ==
  {"feasibility", "completeness", "complexity", "blockers", ":", NL, "150", "low"}

Texts == UNION {[1..k -> ParseAlphabet] : k \in 0..MaxTextLen}

InitParse ==
  /\ Constructed
  /\ fn = "parseCodexOutput"
  /\ args \in Texts
  /\ returned = <<>>

ParseReturns ==
  /\ fn = "parseCodexOutput"
  /\ returned = <<>>
  /\ returned' = <<parseCodexOutput(args)>>
  /\ UNCHANGED <<mgrVars, callVars, procVars, apiVars, fn, args>>

SpecParse == InitParse /\ [][ParseReturns]_vars


\* ---------------------------------- determineValidationStatus on its own
hasSeverity(violations, severity) ==
  \E i \in 1..Len(violations) : violations[i].severity = severity

\* faulty variant: the score is compared before the violations are looked at
determineValidationStatus_ScoreFirst(codexResult, context7Result) ==
  IF ~codexResult.success THEN "fail"
  ELSE IF Len(codexResult.feasibility.blockers) > 0 THEN "fail"
  ELSE IF codexResult.feasibility.score < 40 THEN "fail"
  ELSE IF codexResult.feasibility.score < 70 THEN "warn"
  ELSE IF hasSeverity(context7Result.violations, "error") THEN "fail"
  ELSE IF hasSeverity(context7Result.violations, "warning") THEN "warn"
  ELSE "pass"

determineValidationStatus(codexResult, context7Result) ==
  IF ~codexResult.success THEN "fail"
  ELSE IF Len(codexResult.feasibility.blockers) > 0 THEN "fail"
  ELSE IF codexResult.feasibility.score < 40 THEN "fail"
  ELSE IF hasSeverity(context7Result.violations, "error") THEN "fail"
  ELSE IF codexResult.feasibility.score < 70 THEN "warn"
  ELSE IF hasSeverity(context7Result.violations, "warning") THEN "warn"
  ELSE "pass"

Scores == {0, 39, 40, 69, 70, 100}
BlockerLists == {<<>>, << <<"none">> >>, << <<"no", "database">>, <<"none">> >>}
Severities == {"info", "warning", "error"}
ViolationLists ==
  UNION {[1..k -> [severity : Severities]] : k \in 0..MaxViolations}

StatusArgs ==
  [codexResult : [success : BOOLEAN,
                  feasibility : [score : Scores, blockers : BlockerLists]],
   context7Result : [violations : ViolationLists]]

InitStatus ==
  /\ Constructed
  /\ fn = "determineValidationStatus"
  /\ args \in StatusArgs
  /\ returned = <<>>

StatusReturns ==
  /\ fn = "determineValidationStatus"
  /\ returned = <<>>
  /\ returned' = <<determineValidationStatus(args.codexResult, args.context7Result)>>
  /\ UNCHANGED <<mgrVars, callVars, procVars, apiVars, fn, args>>

SpecStatus == InitStatus /\ [][StatusReturns]_vars


\* ------------------------------------------------- assessImpact on its own
\* A path is a sequence of pieces, joined without blanks.
PathPieces ==
  {"src/", "package.json", "tsconfig", ".env", "Config", "main", "index", "README",
   ".ts", ".tsx", ".js", ".jsx", ".py", ".md"}

\* the markers that occur inside one lower-case piece
markersIn(piece) ==
  CASE piece = "tsconfig" -> {"tsconfig", "config"}
    [] piece \in {"package.json", ".env", "config", "main", "index"} -> {piece}
    [] OTHER -> {}

\* pathLower.includes(marker); of the pieces above only ".ts" followed by
\* "config" lets a marker straddle two pieces
includes(path, marker) ==
  \/ \E i \in 1..Len(path) : marker \in markersIn(toLowerCase(path[i]))
  \/ /\ marker = "tsconfig"
     /\ \E i \in 1..(Len(path) - 1) :
          toLowerCase(path[i]) = ".ts" /\ toLowerCase(path[i + 1]) = "config"

\* pathLower.endsWith(ext)
endsWith(path, ext) == path # <<>> /\ toLowerCase(path[Len(path)]) = ext

\* faulty variant: the extension is looked at before the markers
assessImpact_ExtensionFirst(type, path) ==
  IF \/ endsWith(path, ".ts") \/ endsWith(path, ".tsx") \/ endsWith(path, ".js")
     \/ endsWith(path, ".jsx") \/ endsWith(path, ".py")
     \/ type = "dependency_add"
  THEN "medium"
  ELSE IF \/ includes(path, "package.json") \/ includes(path, "tsconfig")
          \/ includes(path, ".env") \/ includes(path, "config")
          \/ includes(path, "main") \/ includes(path, "index")
          \/ type = "file_delete"
  THEN "high"
  ELSE "low"

assessImpact(type, path) ==
  IF \/ includes(path, "package.json") \/ includes(path, "tsconfig")
     \/ includes(path, ".env") \/ includes(path, "config")
     \/ includes(path, "main") \/ includes(path, "index")
     \/ type = "file_delete"
  THEN "high"
  ELSE IF \/ endsWith(path, ".ts") \/ endsWith(path, ".tsx") \/ endsWith(path, ".js")
          \/ endsWith(path, ".jsx") \/ endsWith(path, ".py")
          \/ type = "dependency_add"
  THEN "medium"
  ELSE "low"

ChangeTypes ==
  {"file_create", "file_modify", "file_delete", "dependency_add", "config_change"}

Paths == UNION {[1..k -> PathPieces] : k \in 1..MaxPathLen}

InitImpact ==
  /\ Constructed
  /\ fn = "assessImpact"
  /\ args \in [type : ChangeTypes, path : Paths]
  /\ returned = <<>>

ImpactReturns ==
  /\ fn = "assessImpact"
  /\ returned = <<>>
  /\ returned' = <<assessImpact(args.type, args.path)>>
  /\ UNCHANGED <<mgrVars, callVars, procVars, apiVars, fn, args>>

SpecImpact == InitImpact /\ [][ImpactReturns]_vars


\* ------------------------------------ createConfirmationRequest on its own
\* A message is a sequence of lines, a line a sequence of tokens.
\* The three backquotes of a code fence are written as three quotes.
Fence == "'''"
DiffFence == "'''diff"

\* path.split('/').pop(): what follows the last piece that ends in a slash
RECURSIVE filename(_)
filename(path) ==
  IF path = <<>> THEN <<>>
  ELSE IF \E i \in 1..Len(path) : path[i] = "src/"
       THEN IF Head(path) = "src/" /\ ~(\E i \in 2..Len(path) : path[i] = "src/")
            THEN Tail(path) ELSE filename(Tail(path))
       ELSE path

generateDescription(type, path) ==
  CASE type = "file_create" -> <<"Create new file:">> \o filename(path)
    [] type = "file_modify" -> <<"Modify existing file:">> \o filename(path)
    [] type = "file_delete" -> <<"Delete file:">> \o filename(path)
    [] type = "dependency_add" -> <<"Add dependency:">> \o path
    [] type = "config_change" -> <<"Update configuration:">> \o path
    [] OTHER -> <<"Change:">> \o path

\* the object parseProposedChanges pushes; diff <<>> stands for no diff
ProposedChange(type, path) ==
  [type |-> type, path |-> path, description |-> generateDescription(type, path),
   impact |-> assessImpact(type, path), diff |-> <<>>]

withImpact(changes, impact) == SelectSeq(changes, LAMBDA c : c.impact = impact)

impactSection(header, items, bold) ==
  IF items = <<>> THEN <<>>
  ELSE << <<header>> >>
       \o [i \in 1..Len(items) |->
             (IF bold THEN <<"- **", items[i].type, "**:">> ELSE <<"-", items[i].type, ":">>)
               \o items[i].description]
       \o << <<>> >>

RECURSIVE diffLines(_)
diffLines(changes) ==
  IF changes = <<>> THEN <<>>
  ELSE << <<>>, <<"**">> \o Head(changes).path \o <<"**:">>, <<DiffFence>>,
          Head(changes).diff, <<Fence>> >> \o diffLines(Tail(changes))

generateConfirmationSummary(changes) ==
  IF Len(changes) = 0 THEN << <<"No changes detected.">> >>
  ELSE << <<"## Proposed Changes">>, <<>>,
          <<"Total:", ToString(Len(changes)), "change(s)">>, <<>> >>
       \o impactSection("### High Impact (requires careful review)",
                        withImpact(changes, "high"), TRUE)
       \o impactSection("### Medium Impact", withImpact(changes, "medium"), FALSE)
       \o impactSection("### Low Impact", withImpact(changes, "low"), FALSE)
       \o (LET changesWithDiffs == SelectSeq(changes, LAMBDA c : c.diff # <<>>) IN
           IF changesWithDiffs = <<>> THEN <<>>
           ELSE << <<"### Diffs">> >> \o diffLines(changesWithDiffs))

\* faulty variant: approval is required only for high-impact changes
createConfirmationRequest_HighOnly(changes) ==
  LET highImpactCount == Len(withImpact(changes, "high")) IN
  [message |->
     generateConfirmationSummary(changes)
       \o << <<>>, <<"---">>, <<>>, <<"**Confirmation Required**">>, <<>>,
             IF highImpactCount > 0
             THEN <<"WARNING: This includes", ToString(highImpactCount),
                    "high-impact change(s) that may significantly affect the project.">>
             ELSE <<"These changes appear to be relatively safe.">>,
             <<>>, <<"To apply these changes, re-run the validation">> >>,
   requiresApproval |-> highImpactCount > 0,
   highImpactCount |-> highImpactCount]

createConfirmationRequest(changes) ==
  LET highImpactCount == Len(withImpact(changes, "high")) IN
  [message |->
     generateConfirmationSummary(changes)
       \o << <<>>, <<"---">>, <<>>, <<"**Confirmation Required**">>, <<>>,
             IF highImpactCount > 0
             THEN <<"WARNING: This includes", ToString(highImpactCount),
                    "high-impact change(s) that may significantly affect the project.">>
             ELSE <<"These changes appear to be relatively safe.">>,
             <<>>, <<"To apply these changes, re-run the validation">> >>,
   requiresApproval |-> Len(changes) > 0,
   highImpactCount |-> highImpactCount]

\* proposals of every impact, one of them with a diff attached
SampleChanges ==
  {ProposedChange("file_create", <<"README", ".md">>),
   ProposedChange("file_modify", <<"src/", "widget", ".ts">>),
   ProposedChange("file_modify", <<"src/", "index", ".ts">>),
   ProposedChange("file_delete", <<"README", ".md">>),
   [ProposedChange("dependency_add", <<"widget">>) EXCEPT
      !.diff = <<"+++", "package.json", NL, "+", "widget">>]}

ChangeLists == UNION {[1..k -> SampleChanges] : k \in 0..MaxChanges}

InitConfirm ==
  /\ Constructed
  /\ fn = "createConfirmationRequest"
  /\ args \in ChangeLists
  /\ returned = <<>>

ConfirmReturns ==
  /\ fn = "createConfirmationRequest"
  /\ returned = <<>>
  /\ returned' = <<createConfirmationRequest(args)>>
  /\ UNCHANGED <<mgrVars, callVars, procVars, apiVars, fn, args>>

SpecConfirm == InitConfirm /\ [][ConfirmReturns]_vars


\* --------------------------------------- validateChangesApplied on its own
lower(text) == [i \in 1..Len(text) |-> toLowerCase(text[i])]

\* hay.includes(needle) for texts whose tokens do not contain one another
isInfix(needle, hay) ==
  \E k \in 0..(Len(hay) - Len(needle)) : SubSeq(hay, k + 1, k + Len(needle)) = needle

pathsOf(changes) == [i \in 1..Len(changes) |-> changes[i].path]

\* faulty variant: the path is looked for as written
validateChangesApplied_CaseSensitive(proposedChanges, appliedChanges) ==
  LET wasApplied(change) ==
        \E j \in 1..Len(appliedChanges) : isInfix(change.path, appliedChanges[j])
      applied == pathsOf(SelectSeq(proposedChanges, wasApplied))
      failed == pathsOf(SelectSeq(proposedChanges, LAMBDA c : ~wasApplied(c)))
  IN [success |-> Len(failed) = 0, applied |-> applied, failed |-> failed,
      partial |-> Len(applied) > 0 /\ Len(failed) > 0]

validateChangesApplied(proposedChanges, appliedChanges) ==
  LET wasApplied(change) ==
        \E j \in 1..Len(appliedChanges) :
          isInfix(lower(change.path), lower(appliedChanges[j]))
      applied == pathsOf(SelectSeq(proposedChanges, wasApplied))
      failed == pathsOf(SelectSeq(proposedChanges, LAMBDA c : ~wasApplied(c)))
  IN [success |-> Len(failed) = 0, applied |-> applied, failed |-> failed,
      partial |-> Len(applied) > 0 /\ Len(failed) > 0]

SampleApplied ==
  {<<"Updated", "src/", "widget", ".ts">>, <<"created", "readme", ".md">>, <<"nothing">>}

AppliedLists == UNION {[1..k -> SampleApplied] : k \in 0..MaxApplied}

InitAudit ==
  /\ Constructed
  /\ fn = "validateChangesApplied"
  /\ args \in [proposedChanges : ChangeLists, appliedChanges : AppliedLists]
  /\ returned = <<>>

AuditReturns ==
  /\ fn = "validateChangesApplied"
  /\ returned = <<>>
  /\ returned' = <<validateChangesApplied(args.proposedChanges, args.appliedChanges)>>
  /\ UNCHANGED <<mgrVars, callVars, procVars, apiVars, fn, args>>

SpecAudit == InitAudit /\ [][AuditReturns]_vars


\* ----------------------------------------- parseProposedChanges on its own
TAB == "\t"

\* a word of 198 characters
LongWord ==
  "xxxxxxxxxxxxxxxxxxxxxxxxxxxxxxxxxxxxxxxxxxxxxxxxxxxxxxxxxxxxxxxxxxxxxxxxxxxxxxxxxxxxxxxxxxxxxxxxxxxxxxxxxxxxxxxxxxxxxxxxxxxxxxxxxxxxxxxxxxxxxxxxxxxxxxxxxxxxxxxxxxxxxxxxxxxxxxxxxxxxxxxxxxxxxxxxxxxxxx"

\* the alternatives of the five regexes, letter case ignored; a token that
\* ends in an alternative matches as well ("tsconfig")
isKeyword(token, type) ==
  LET t == toLowerCase(token) IN
  CASE type = "file_create" -> t \in {"create", "creating", "new file"}
    [] type = "file_modify" ->
         t \in {"modify", "modifying", "update", "updating", "edit", "editing"}
    [] type = "file_delete" -> t \in {"delete", "deleting", "remove", "removing"}
    [] type = "dependency_add" ->
         t \in {"install", "add dependency", "npm install", "yarn add"}
    [] type = "config_change" -> t \in {"config", "configuration", "setting", "tsconfig"}
    [] OTHER -> FALSE

\* [:\s]
IsPathSep(t) == t \in {":", NL, TAB}

RECURSIVE SkipPathSep(_, _)
SkipPathSep(text, p) ==
  IF p <= Len(text) /\ IsPathSep(text[p]) THEN SkipPathSep(text, p + 1) ELSE p

\* index of the last token from p on that is not a newline, 0 if none
RECURSIVE LastOnLine(_, _)
LastOnLine(text, p) ==
  IF p > Len(text) THEN 0
  ELSE IF LastOnLine(text, p + 1) # 0 THEN LastOnLine(text, p + 1)
  ELSE IF text[p] # NL THEN p ELSE 0

\* String.prototype.trim: tabs and newlines at both ends go
RECURSIVE trim(_)
trim(text) ==
  IF text = <<>> THEN <<>>
  ELSE IF Head(text) \in {TAB, NL} THEN trim(Tail(text))
  ELSE IF text[Len(text)] \in {TAB, NL} THEN trim(SubSeq(text, 1, Len(text) - 1))
  ELSE text

\* regex.exec in a loop for /(?:alternatives)[:\s]+([^\n]+)/gi from p on:
\* match[1].trim() of every match.  The separator run is greedy; when it
\* reaches the end of the text it gives back its last token that is not a
\* newline, which is then the capture.
RECURSIVE candidatesFrom(_, _, _)
candidatesFrom(text, type, p) ==
  IF p > Len(text) THEN <<>>
  ELSE IF ~isKeyword(text[p], type) THEN candidatesFrom(text, type, p + 1)
  ELSE LET q == SkipPathSep(text, p + 1) IN
       IF q <= Len(text)
       THEN <<trim(SubSeq(text, q, EndOfLine(text, q) - 1))>>
              \o candidatesFrom(text, type, EndOfLine(text, q))
       ELSE IF LastOnLine(text, p + 1) # 0
       THEN << trim(<<text[LastOnLine(text, p + 1)]>>) >>
       ELSE <<>>

\* path.length: the characters of the tokens and the blanks between them
RECURSIVE length(_)
length(path) ==
  IF path = <<>> THEN 0
  ELSE Len(Head(path)) + (IF Len(path) > 1 THEN 1 ELSE 0) + length(Tail(path))

\* path && !path.startsWith('//') && path.length < 200
accepted(path) == path # <<>> /\ path[1] # "//" /\ length(path) < 200

\* the while loop of one pattern
proposalsOfType(text, type) ==
  LET paths == SelectSeq(candidatesFrom(text, type, 1), accepted) IN
  [i \in 1..Len(paths) |-> ProposedChange(type, paths[i])]

\* the for loop over the patterns, in their order
collectProposals(text) ==
  proposalsOfType(text, "file_create") \o proposalsOfType(text, "file_modify")
    \o proposalsOfType(text, "file_delete") \o proposalsOfType(text, "dependency_add")
    \o proposalsOfType(text, "config_change")

IsFence(t) == t \in {Fence, DiffFence}

\* index of the first fence at or after p, 0 if none
RECURSIVE NextFence(_, _)
NextFence(text, p) ==
  IF p > Len(text) THEN 0
  ELSE IF IsFence(text[p]) THEN p ELSE NextFence(text, p + 1)

\* diffRegex.exec in a loop from p on: diffMatch[1].trim() of every match of
\* fence, optional tag, newline, shortest content, fence
RECURSIVE scanDiffs(_, _)
scanDiffs(text, p) ==
  IF p + 1 > Len(text) THEN <<>>
  ELSE IF IsFence(text[p]) /\ text[p + 1] = NL /\ NextFence(text, p + 2) # 0
       THEN <<trim(SubSeq(text, p + 2, NextFence(text, p + 2) - 1))>>
              \o scanDiffs(text, NextFence(text, p + 2) + 1)
       ELSE scanDiffs(text, p + 1)

\* \s
IsSpace(t) == t \in {NL, TAB}

RECURSIVE SkipSpace(_, _)
SkipSpace(text, p) ==
  IF p <= Len(text) /\ IsSpace(text[p]) THEN SkipSpace(text, p + 1) ELSE p

\* diffContent.match(/^(?:---|\+\+\+)\s+([^\n]+)/m): fileMatch[1] of the
\* first line from p on that matches, <<>> if there is none
RECURSIVE headerPath(_, _)
headerPath(diffContent, p) ==
  IF p > Len(diffContent) THEN <<>>
  ELSE IF /\ (p = 1 \/ diffContent[p - 1] = NL)
          /\ diffContent[p] \in {"---", "+++"}
          /\ SkipSpace(diffContent, p + 1) <= Len(diffContent)
       THEN LET q == SkipSpace(diffContent, p + 1) IN
            SubSeq(diffContent, q, EndOfLine(diffContent, q) - 1)
       ELSE headerPath(diffContent, p + 1)

\* changes.find(c => c.path.includes(header)): its index, 0 if none
RECURSIVE findChange(_, _, _)
findChange(changes, header, i) ==
  IF i > Len(changes) THEN 0
  ELSE IF isInfix(header, changes[i].path) THEN i
  ELSE findChange(changes, header, i + 1)

\* the body of the loop over the diff blocks
attachDiff(changes, diffContent) ==
  LET header == headerPath(diffContent, 1) IN
  IF header = <<>> \/ findChange(changes, header, 1) = 0 THEN changes
  ELSE [changes EXCEPT ![findChange(changes, header, 1)].diff = diffContent]

RECURSIVE attachDiffs(_, _)
attachDiffs(changes, diffs) ==
  IF diffs = <<>> THEN changes
  ELSE attachDiffs(attachDiff(changes, Head(diffs)), Tail(diffs))

parseProposedChanges(codexOutput) ==
  attachDiffs(collectProposals(codexOutput), scanDiffs(codexOutput, 1))

\* lines of backend prose and diff blocks
Segments ==
  {<<"create", ":", "src/", "widget", ".ts", NL>>,
   <<"delete", ":", "README", ".md", NL>>,
   <<"Update", LongWord, "y", NL>>,
   <<"update", LongWord, "zz", TAB, NL>>,
   <<"create", "//", "y", NL>>,
   <<"remove", ":", TAB>>,
   <<DiffFence, NL, "---", "widget", NL, "+", "y", NL, Fence, NL>>,
   <<Fence, NL, "+++", "widget", NL, "-", "zz", NL, Fence, NL>>,
   <<DiffFence, NL, "---", "index", NL, Fence, NL>>}

RECURSIVE join(_)
join(segments) ==
  IF segments = <<>> THEN <<>> ELSE Head(segments) \o join(Tail(segments))

Outputs == {join(segments) : segments \in UNION {[1..k -> Segments] : k \in 0..MaxSegments}}

InitPropose ==
  /\ Constructed
  /\ fn = "parseProposedChanges"
  /\ args \in Outputs
  /\ returned = <<>>

ProposeReturns ==
  /\ fn = "parseProposedChanges"
  /\ returned = <<>>
  /\ returned' = <<parseProposedChanges(args)>>
  /\ UNCHANGED <<mgrVars, callVars, procVars, apiVars, fn, args>>

SpecPropose == InitPropose /\ [][ProposeReturns]_vars


\* ------------------------------------- the validate_plan tool handler alone
\* the checks validatePlan makes before it reaches the execution manager:
\* the error it throws, "none" if it goes on
planError(planInput) ==
  IF ~planInput.plan_path /\ ~planInput.plan_content
  THEN "Either plan_path or plan_content must be provided"
  ELSE IF ~planInput.plan_content /\ ~planInput.readable THEN "Failed to read plan file"
  ELSE "none"

\* validatePlan: what it throws or returns; `rest` is the outcome of
\* everything after the plan has been read
validatePlan(planInput, rest) ==
  IF planError(planInput) # "none" THEN [threw |-> TRUE, error |-> planError(planInput)]
  ELSE rest

\* the payload of the handler's catch block
errorPayload(errorMessage) ==
  [error |-> errorMessage, validation_status |-> "fail", execution_path |-> "unknown",
   fallback_triggered |-> FALSE, fallback_reason |-> "null"]

\* faulty variant: the handler without its outer catch
validatePlanTool_NoCatch(params, rest, saved) ==
  IF ~params.wellFormed THEN [threw |-> TRUE, error |-> "ZodError"]
  ELSE IF validatePlan(params, rest).threw THEN validatePlan(params, rest)
  ELSE [threw |-> FALSE, isError |-> FALSE, payload |-> validatePlan(params, rest).json,
        reportSaved |-> saved]

\* the handler registered for the tool; `saved` tells whether
\* saveMarkdownReport succeeds
validatePlanTool(params, rest, saved) ==
  IF ~params.wellFormed
  THEN [threw |-> FALSE, isError |-> TRUE, payload |-> errorPayload("ZodError"),
        reportSaved |-> FALSE]
  ELSE IF validatePlan(params, rest).threw
  THEN [threw |-> FALSE, isError |-> TRUE,
        payload |-> errorPayload(validatePlan(params, rest).error), reportSaved |-> FALSE]
  ELSE [threw |-> FALSE, isError |-> FALSE, payload |-> validatePlan(params, rest).json,
        reportSaved |-> saved]

Params == [wellFormed : BOOLEAN, plan_path : BOOLEAN, plan_content : BOOLEAN,
           readable : BOOLEAN]

Reports ==
  [validation_status : {"pass", "warn", "fail"}, execution_path : {"codex_cli", "openai_api"},
   fallback_triggered : BOOLEAN]

\* validatePlan after the plan is read: getExecutionManager or execute
\* throws, or a report is returned
RestOutcomes ==
  {[threw |-> TRUE, error |-> e] :
     e \in {"No execution path available", "Codex CLI is not installed"}}
    \cup {[threw |-> FALSE, json |-> j] : j \in Reports}

InitTool ==
  /\ Constructed
  /\ fn = "validate_plan"
  /\ args \in [params : Params, rest : RestOutcomes, saved : BOOLEAN]
  /\ returned = <<>>

ToolReturns ==
  /\ fn = "validate_plan"
  /\ returned = <<>>
  /\ returned' = <<validatePlanTool(args.params, args.rest, args.saved)>>
  /\ UNCHANGED <<mgrVars, callVars, procVars, apiVars, fn, args>>

SpecTool == InitTool /\ [][ToolReturns]_vars


\* ------------------------------------------------------------- the claims
record(res) ==
  [feasibility |-> res.feasibility, codeReview |-> res.codeReview,
   implementationAnalysis |-> res.implementationAnalysis,
   changesApplied |-> res.changesApplied]

IsReset == \E r \in Reqs : resetFallbackState(r)

primaryQuota(r) == primaryResult[r] # NoResult /\ primaryResult[r].quotaExhausted

\* C1: with apply_changes and require_confirmation both set, Primary is not
\* invoked in apply mode before the confirmation request of that call has
\* been produced.
C1_NoApplyBeforeConfirmation ==
  \A r \in Reqs :
    (input[r].apply_changes /\ input[r].require_confirmation /\ contains(invoked[r], "P"))
      => confirmation[r].produced

\* C2: within one execute call Primary and Secondary are each invoked at
\* most once and Primary never after Secondary; when Primary reported quota
\* exhaustion and Secondary is configured, Secondary is invoked exactly once
\* and its outcome, whatever it is, is the one returned.
C2_SingleHop ==
  \A r \in Reqs :
    /\ invoked[r] \in {<<>>, <<"P">>, <<"S">>, <<"P", "S">>}
    /\ (primaryQuota(r) /\ openai) => invoked[r] = <<"P", "S">>
    /\ (pc[r] = "executed" /\ primaryQuota(r) /\ openai)
         => result[r].executionPath = "openai_api"

C2_Witness ==
  \E r \in Reqs :
    /\ pc[r] = "executed" /\ invoked[r] = <<"P", "S">>
    /\ result[r].executionPath = "openai_api"
    /\ ~result[r].success /\ result[r].quotaExhausted

\* C3: when Primary was available, Secondary is invoked if and only if
\* Primary's outcome is quota-exhausted and Secondary is configured;
\* otherwise Primary's outcome is returned unchanged and the step that
\* returns it leaves fallbackTriggered and fallbackReason as they were.
C3_State ==
  \A r \in Reqs :
    (invoked[r] # <<>> /\ Head(invoked[r]) = "P" /\ pc[r] \in {"secondary", "executed"})
      => /\ contains(invoked[r], "S") <=> (primaryResult[r].quotaExhausted /\ openai)
         /\ (pc[r] = "executed" /\ ~(primaryResult[r].quotaExhausted /\ openai))
              => (result[r] = primaryResult[r] /\ result[r].executionPath = "codex_cli")

C3_Frame ==
  \A r \in Reqs :
    (pc[r] = "primary" /\ pc'[r] = "executed")
      => (fallbackTriggered' = fallbackTriggered /\ fallbackReason' = fallbackReason)

C3_FailoverIffQuota == [](C3_State) /\ [][C3_Frame]_vars

C3_Witness ==
  \E r \in Reqs :
    /\ pc[r] = "executed" /\ invoked[r] = <<"P">>
    /\ primaryResult[r].quotaExhausted /\ ~openai
    /\ result[r] = primaryResult[r]

C5_Step ==
  \A r \in Reqs :
    (pc[r] = "ready" /\ pc'[r] # "ready" /\ codexCliAvailable # "true" /\ openai)
      => /\ pc'[r] = "secondary"
         /\ invoked'[r] = <<"S">>
         /\ child'[r] = child[r]
         /\ apiCall'[r] = "pending"
         /\ IF fallbackTriggered
            THEN fallbackTriggered' /\ fallbackReason' = fallbackReason
            ELSE fallbackTriggered' /\ fallbackReason' = NotInstalledReason

C5_DirectRoute == [][C5_Step]_vars

C5_Witness ==
  \E r \in Reqs :
    /\ pc[r] = "secondary" /\ invoked[r] = <<"S">> /\ previousFallback[r]
    /\ codexCliAvailable = "false"
    /\ fallbackTriggered /\ fallbackReason = QuotaReason

\* C6: once fallbackReason has a value, no step other than a reset replaces
\* it by a different value.
C6_ReasonNeverReplaced ==
  [][(fallbackReason # "null" /\ ~IsReset) => fallbackReason' = fallbackReason]_vars

\* C7: once an initialize() has completed, no later call starts a probe and
\* the cached codexCliAvailable never changes.
C7_InitializeIdempotent ==
  [][codexCliAvailable # "null"
       => /\ codexCliAvailable' = codexCliAvailable
          /\ \A r \in Reqs : pc'[r] = "init" => pc[r] = "init"]_vars

\* C8: initialize() ends with the configuration error exactly when its probe
\* found Primary missing and Secondary is not configured, and execute throws
\* "No execution path available" only when a probe has found Primary missing
\* and Secondary is not configured.
C8_Step ==
  \A r \in Reqs :
    /\ (pc[r] = "init" /\ pc'[r] # "init")
         => (error'[r] = "config" <=> (codexCliAvailable' = "false" /\ ~openai))
    /\ (pc[r] = "ready" /\ error'[r] = "No execution path available")
         => (codexCliAvailable = "false" /\ ~openai)

C8_ConfigErrorOnlyWhenNeitherUsable == [][C8_Step]_vars

\* C9: within one execute call the child process of Primary and the chat
\* completion of Secondary are never in flight together; the completion is
\* issued only after Primary's process has closed and its outcome is known.
C9_NoFanOut ==
  \A r \in Reqs :
    /\ ~(child[r] = "running" /\ apiCall[r] = "pending")
    /\ (apiCall[r] = "pending" /\ contains(invoked[r], "P"))
         => (child[r] = "closed" /\ settled[r] /\ primaryQuota(r))

C9_Witness ==
  \E r \in Reqs :
    pc[r] = "secondary" /\ invoked[r] = <<"P", "S">> /\ apiCall[r] = "pending"

exitedNonZero(res) ==
  res.executionPath = "codex_cli" /\ res.error = "Codex CLI exited with code"

Headers ==
  {"blockers", "risks", "dependencies", "gaps", "improvements", "violations",
   "suggestions", "changes applied"}

retval == returned[1]

listsOf(rec) ==
  [h \in Headers |->
     CASE h = "blockers" -> rec.feasibility.blockers
       [] h = "risks" -> rec.feasibility.risks
       [] h = "dependencies" -> rec.feasibility.dependencies_missing
       [] h = "gaps" -> rec.implementationAnalysis.gaps
       [] h = "improvements" -> rec.codeReview.improvements
       [] h = "violations" -> rec.codeReview.best_practice_violations
       [] h = "suggestions" -> rec.codeReview.suggestions
       [] OTHER -> rec.changesApplied]

C11_Defaults ==
  (fn = "parseCodexOutput" /\ returned # <<>>) =>
    /\ MatchNumber(args, "feasibility", 1) < 0 => retval.feasibility.score = 50
    /\ MatchNumber(args, "completeness", 1) < 0
         => retval.implementationAnalysis.completeness = 50
    /\ ~contains(args, "complexity")
         => retval.implementationAnalysis.estimated_complexity = "medium"
    /\ \A h \in Headers : ~contains(args, h) => listsOf(retval)[h] = <<>>

\* C12: in every result returned on any path (parsed Primary output, parsed
\* Secondary output, any degraded record) the feasibility score and the
\* completeness are integers in 0..100, and a parsed number above 100 is
\* returned as 100.
wasParsed(res) == res.success \/ res.error = "Codex CLI exited with code"

parsedText(res) == IF res.rawOutput # <<>> THEN res.rawOutput ELSE res.rawError

C12_ScoresInRange ==
  \A r \in Reqs : \A res \in {result[r], primaryResult[r]} :
    res # NoResult =>
      /\ res.feasibility.score \in 0..100
      /\ res.implementationAnalysis.completeness \in 0..100
      /\ (wasParsed(res) /\ MatchNumber(parsedText(res), "feasibility", 1) > 100)
           => res.feasibility.score = 100
      /\ (wasParsed(res) /\ MatchNumber(parsedText(res), "completeness", 1) > 100)
           => res.implementationAnalysis.completeness = 100

C12_Witness ==
  \E r \in Reqs :
    /\ result[r] # NoResult
    /\ result[r].executionPath = "codex_cli"
    /\ wasParsed(result[r])
    /\ MatchNumber(parsedText(result[r]), "completeness", 1) = 150
    /\ result[r].implementationAnalysis.completeness = 100

\* C14: the outcome of a Primary process that closes is classified quota
\* exhausted (and failed) whenever stdout or stderr contains a quota phrase,
\* in any letter case and whatever the exit code; output without a quota
\* phrase and a non-zero exit code is a plain process error, not quota.
closeSettles(r) == child[r] = "running" /\ child'[r] = "closed" /\ ~settled[r]

quotaText(r) == isQuotaError(stdout[r]) \/ isQuotaError(stderr[r])

classifiedQuota(res) == res.quotaExhausted /\ ~res.success /\ res.error = QuotaReason

classifiedProcessError(res) ==
  ~res.quotaExhausted /\ ~res.success /\ res.error = "Codex CLI exited with code"

C14_QuotaByTextOnly ==
  [][\A r \in Reqs :
       closeSettles(r) =>
         /\ quotaText(r) => classifiedQuota(primaryResult'[r])
         /\ (~quotaText(r) /\ exitCode'[r] # 0)
              => ~primaryResult'[r].quotaExhausted /\ ~primaryResult'[r].success]_vars

\* C14 (amended): the same for a process that closes without having been
\* timed out; the outcome of a timed-out process is a timeout, never quota,
\* whatever it printed.
C14_QuotaByTextUnlessTimedOut ==
  [][\A r \in Reqs :
       closeSettles(r) =>
         /\ (~timedOut[r] /\ quotaText(r)) => classifiedQuota(primaryResult'[r])
         /\ (~timedOut[r] /\ ~quotaText(r) /\ exitCode'[r] # 0)
              => classifiedProcessError(primaryResult'[r])
         /\ timedOut[r] => /\ ~primaryResult'[r].quotaExhausted
                           /\ ~primaryResult'[r].success
                           /\ primaryResult'[r].error = "Codex CLI timed out"]_vars

C14_Witness ==
  \E r \in Reqs :
    /\ child[r] = "closed"
    /\ exitCode[r] = 0
    /\ ~timedOut[r]
    /\ contains(stderr[r], "Rate Limit")
    /\ primaryResult[r] # NoResult
    /\ classifiedQuota(primaryResult[r])

\* C15: the Primary timeout is two-stage.  When the timeout elapses before
\* the process closes, SIGTERM is sent first; SIGKILL is sent by the grace
\* timer armed at that moment, and only to a process that has not exited;
\* a process that exits within the grace window never receives SIGKILL.
C15_Order ==
  \A r \in Reqs :
    /\ signals[r] \in {<<>>, <<"SIGTERM">>, <<"SIGTERM", "SIGKILL">>}
    /\ timedOut[r] => signals[r] # <<>>

C15_Step ==
  \A r \in Reqs :
    (signals'[r] # signals[r] /\ signals'[r] # <<>>) =>
      /\ child[r] = "running"
      /\ signals'[r] = <<"SIGTERM">> => (timeoutId[r] /\ killTimer'[r])
      /\ signals'[r] = <<"SIGTERM", "SIGKILL">> => (killTimer[r] /\ ~killTimer'[r])

C16_NoOrphanedHandle ==
  \A r \in Reqs :
    /\ primaryResult[r] # NoResult => (~timeoutId[r] /\ ~killTimer[r])
    /\ apiCall[r] = "settled" => ~abortTimer[r]

\* C17: a backend invocation never throws for a classifiable failure.  The
\* promise of Primary always resolves with an outcome, and that outcome has
\* success = FALSE for a missing executable, a spawn error, a timeout, a
\* quota phrase and a non-zero exit; a rejection of the Secondary call is
\* caught and returned as an outcome with success = FALSE.  A call that
\* threw had invoked no backend.
C17_State ==
  \A r \in Reqs :
    /\ pc[r] = "threw" => invoked[r] = <<>>
    /\ settled[r] => primaryResult[r] # NoResult
    /\ apiCall[r] = "settled" => (pc[r] = "executed" /\ result[r] # NoResult)

C17_Step ==
  \A r \in Reqs :
    /\ (~settled[r] /\ settled'[r]) =>
         /\ primaryResult'[r] # NoResult
         /\ pc'[r] # "threw"
         /\ (child'[r] = "running" \/ timedOut[r] \/ quotaText(r) \/ exitCode'[r] # 0)
              => ~primaryResult'[r].success
    /\ (\E errorMessage \in ApiErrors : OpenAIRejects(r, errorMessage)) =>
         /\ pc'[r] = "executed"
         /\ result'[r] # NoResult
         /\ ~result'[r].success

C17_InvokerNeverThrows == [](C17_State) /\ [][C17_Step]_vars

C17_Witness ==
  \E r \in Reqs :
    /\ invoked[r] = <<"P", "S">>
    /\ apiCall[r] = "settled"
    /\ aborted[r]
    /\ pc[r] = "executed"
    /\ ~result[r].success
    /\ result[r].executionPath = "openai_api"

\* C18: every failed outcome returned to the caller names the backend that
\* was attempted last, comes with the fallback flag and reason when a
\* failover was made, and carries the raw error text of the backend
\* verbatim; after a quota failover whose Secondary call fails too, the raw
\* output and error text of Primary are still in what the caller gets.
surfaces(res, text) ==
  \A i \in 1..Len(text) : contains(res.rawError, text[i]) \/ contains(res.rawOutput, text[i])

C18_State ==
  \A r \in Reqs :
    (pc[r] = "executed" /\ ~result[r].success) =>
      /\ result[r].executionPath =
           IF invoked[r][Len(invoked[r])] = "P" THEN "codex_cli" ELSE "openai_api"
      /\ invoked[r] = <<"P", "S">> =>
           /\ execStatus[r].fallbackTriggered
           /\ execStatus[r].fallbackReason = QuotaReason
           /\ surfaces(result[r], primaryResult[r].rawError)
           /\ surfaces(result[r], primaryResult[r].rawOutput)

C18_Step ==
  \A r \in Reqs : \A errorMessage \in ApiErrors :
    OpenAIRejects(r, errorMessage) => result'[r].rawError = errorMessage

C18_FailureCarriesRawError == [](C18_State) /\ [][C18_Step]_vars

\* C19: the validation status is a priority rule.  It is fail when execution
\* did not succeed, or a blocker exists, or feasibility < 40, or a violation
\* of severity error exists; otherwise warn when feasibility < 70 or a
\* violation of severity warning exists; otherwise pass.
failCondition(a) ==
  \/ ~a.codexResult.success
  \/ a.codexResult.feasibility.blockers # <<>>
  \/ a.codexResult.feasibility.score < 40
  \/ \E i \in DOMAIN a.context7Result.violations :
        a.context7Result.violations[i].severity = "error"

warnCondition(a) ==
  \/ a.codexResult.feasibility.score < 70
  \/ \E i \in DOMAIN a.context7Result.violations :
        a.context7Result.violations[i].severity = "warning"

C19_StatusPriority ==
  (fn = "determineValidationStatus" /\ returned # <<>>) =>
    /\ retval \in {"fail", "warn", "pass"}
    /\ retval = "fail" <=> failCondition(args)
    /\ retval = "warn" <=> (~failCondition(args) /\ warnCondition(args))
    /\ retval = "pass" =>
         /\ args.codexResult.success
         /\ args.codexResult.feasibility.blockers = <<>>
         /\ args.codexResult.feasibility.score >= 70
         /\ ~failCondition(args)

C19_Witness ==
  /\ fn = "determineValidationStatus"
  /\ returned = <<"fail">>
  /\ args.codexResult.success
  /\ args.codexResult.feasibility.blockers = <<>>
  /\ args.codexResult.feasibility.score = 69
  /\ args.context7Result.violations = <<[severity |-> "warning"], [severity |-> "error"]>>

\* C20: the impact of a proposed change is a first-match-wins rule over its
\* kind and path.  It is high when the path contains a sensitive marker
\* (package.json, tsconfig, .env, config, main, index; in any letter case)
\* or the kind is delete; otherwise medium when the path ends in .ts, .tsx,
\* .js, .jsx or .py or the kind is dependency_add; otherwise low.  So a
\* delete is high for every path, and a .md path without a marker that is
\* created or modified is low.
Markers == {"package.json", "tsconfig", ".env", "config", "main", "index"}
SourceExtensions == {".ts", ".tsx", ".js", ".jsx", ".py"}

sensitive(path) == \E marker \in Markers : includes(path, marker)

isSource(path) == \E ext \in SourceExtensions : endsWith(path, ext)

C20_ImpactPriority ==
  (fn = "assessImpact" /\ returned # <<>>) =>
    /\ retval \in {"high", "medium", "low"}
    /\ retval = "high" <=> (sensitive(args.path) \/ args.type = "file_delete")
    /\ retval = "medium" <=>
         /\ ~(sensitive(args.path) \/ args.type = "file_delete")
         /\ (isSource(args.path) \/ args.type = "dependency_add")
    /\ args.type = "file_delete" => retval = "high"
    /\ ( /\ args.type \in {"file_create", "file_modify"}
         /\ endsWith(args.path, ".md")
         /\ ~sensitive(args.path) ) => retval = "low"

C20_Witness ==
  /\ fn = "assessImpact"
  /\ args = [type |-> "file_modify", path |-> <<"index", ".ts">>]
  /\ returned = <<"high">>

\* C21: the confirmation request requires approval for every non-empty list
\* of proposals, even when all are of low impact, and for the empty list it
\* requires none and its message says that no changes were detected;
\* highImpactCount is the number of proposals of impact high, and the
\* warning sentence is in the message exactly when that number is positive.
hasLine(message, first) ==
  \E i \in 1..Len(message) : message[i] # <<>> /\ message[i][1] = first

C21_ConfirmationGating ==
  (fn = "createConfirmationRequest" /\ returned # <<>>) =>
    /\ retval.requiresApproval <=> args # <<>>
    /\ args = <<>> => hasLine(retval.message, "No changes detected.")
    /\ retval.highImpactCount
         = Cardinality({i \in DOMAIN args : args[i].impact = "high"})
    /\ hasLine(retval.message, "WARNING: This includes") <=> retval.highImpactCount > 0

C21_Witness ==
  /\ fn = "createConfirmationRequest"
  /\ returned # <<>>
  /\ args # <<>>
  /\ \A i \in DOMAIN args : args[i].impact = "low"
  /\ retval.requiresApproval
  /\ ~hasLine(retval.message, "WARNING: This includes")

\* C22: the audit partitions the proposals.  The path of every proposal is
\* in exactly one of applied and failed, in applied exactly when some
\* applied description contains it, letter case ignored; success is TRUE
\* exactly when failed is empty, partial exactly when neither is empty.
reportedApplied(path) ==
  \E j \in DOMAIN args.appliedChanges :
    isInfix(lower(path), lower(args.appliedChanges[j]))

C22_AuditPartitions ==
  (fn = "validateChangesApplied" /\ returned # <<>>) =>
    /\ \A i \in DOMAIN args.proposedChanges :
         LET path == args.proposedChanges[i].path IN
         /\ contains(retval.applied, path) <=> ~contains(retval.failed, path)
         /\ contains(retval.applied, path) <=> reportedApplied(path)
    /\ Len(retval.applied) + Len(retval.failed) = Len(args.proposedChanges)
    /\ retval.success <=> retval.failed = <<>>
    /\ retval.partial <=> (retval.applied # <<>> /\ retval.failed # <<>>)
    /\ args.proposedChanges = <<>> => (retval.success /\ ~retval.partial)

C22_Witness ==
  /\ fn = "validateChangesApplied"
  /\ returned # <<>>
  /\ args.appliedChanges = << <<"created", "readme", ".md">> >>
  /\ retval.applied = << <<"README", ".md">> >>
  /\ retval.failed = << <<"src/", "widget", ".ts">> >>
  /\ retval.partial
  /\ ~retval.success

\* paths of the returned proposals of one change type, in list order
returnedPaths(type) ==
  LET ofType == SelectSeq(retval, LAMBDA c : c.type = type) IN
  [i \in 1..Len(ofType) |-> ofType[i].path]

withinLimit(path) == path # <<>> /\ path[1] # "//" /\ length(path) <= 200

\* C23: a candidate path captured by parseProposedChanges becomes a proposal
\* exactly when, trimmed, it is not empty, does not begin with the comment
\* marker and is at most 200 characters long (200 accepted, 201 rejected).
C23_CandidateFilter ==
  (fn = "parseProposedChanges" /\ returned # <<>>) =>
    \A type \in ChangeTypes :
      returnedPaths(type) = SelectSeq(candidatesFrom(args, type, 1), withinLimit)

\* the diffs, in scan order, whose first matching proposal is the i-th
diffsFor(changes, diffs, i) ==
  SelectSeq(diffs, LAMBDA d :
    headerPath(d, 1) # <<>> /\ findChange(changes, headerPath(d, 1), 1) = i)

\* C24: every scanned diff goes to at most one proposal, the first whose
\* path contains the diff's header path; of several diffs matching the same
\* proposal the first one stays; a diff that matches none changes nothing.
C24_FirstDiffWins ==
  (fn = "parseProposedChanges" /\ returned # <<>>) =>
    LET changes == collectProposals(args)
        diffs == scanDiffs(args, 1) IN
    /\ Len(retval) = Len(changes)
    /\ \A i \in 1..Len(changes) :
         /\ [retval[i] EXCEPT !.diff = <<>>] = changes[i]
         /\ retval[i].diff =
              IF diffsFor(changes, diffs, i) = <<>> THEN <<>>
              ELSE diffsFor(changes, diffs, i)[1]

\* the handler's input is rejected: by the schema or by validatePlan
rejected(a) == ~a.params.wellFormed \/ validatePlan(a.params, a.rest).threw

\* C25: the validate_plan handler never lets an exception out: an error
\* from parsing the input or from validatePlan gives an isError response
\* whose payload has validation_status "fail", and a validation that
\* succeeded is answered without isError, with its own report, whether or
\* not the markdown report could be saved.
C25_HandlerNeverThrows ==
  (fn = "validate_plan" /\ returned # <<>>) =>
    /\ ~retval.threw
    /\ rejected(args) => retval.isError /\ retval.payload.validation_status = "fail"
    /\ ~rejected(args) => ~retval.isError /\ retval.payload = args.rest.json

C25_Witness ==
  /\ fn = "validate_plan" /\ returned # <<>>
  /\ args.params.wellFormed /\ args.params.plan_path /\ ~args.params.plan_content
  /\ args.params.readable /\ ~args.rest.threw /\ ~args.saved
  /\ args.rest.json.validation_status = "pass"
  /\ ~retval.isError

\* the last initialize() to finish found a usable backend
initialized == codexCliAvailable # "null" /\ (codexCliAvailable = "true" \/ openai)

\* C26: a caller that getExecutionManager has handed the manager to holds a
\* manager whose initialize() has completed successfully, even when the call
\* came while another caller's initialize() was pending or after it threw.
C26_OnlyInitializedManagers ==
  \A r \in Reqs : pc[r] = "ready" => initialized

\* C27: in every reachable state the manager's fallbackTriggered flag is
\* set exactly when its fallbackReason is not null.
C27_FlagIffReason == fallbackTriggered <=> fallbackReason # "null"

\* a failover has set the pair and the call has returned through Secondary
C27_Witness ==
  /\ fallbackTriggered /\ fallbackReason = QuotaReason
  /\ \E r \in Reqs : pc[r] = "executed" /\ invoked[r] = <<"P", "S">>

\* C28: an outcome that execute returns with executionPath openai_api comes
\* with a manager status, read at that moment, whose fallbackTriggered is
\* set and whose reason is not null; an outcome with executionPath
\* codex_cli is returned only by a call that invoked Primary.
C28_Provenance ==
  \A r \in Reqs : pc[r] = "executed" =>
    /\ result[r].executionPath = "openai_api" =>
         execStatus[r].fallbackTriggered /\ execStatus[r].fallbackReason # "null"
    /\ result[r].executionPath = "codex_cli" => contains(invoked[r], "P")

C28_Step ==
  \A r \in Reqs :
    /\ (pc[r] # "secondary" /\ pc'[r] = "secondary") =>
         fallbackTriggered' /\ fallbackReason' # "null"
    /\ (pc[r] = "secondary" /\ fallbackTriggered /\ ~fallbackTriggered') => IsReset
    /\ (pc[r] # "executed" /\ pc'[r] = "executed") =>
         /\ execStatus'[r].fallbackTriggered = fallbackTriggered'
         /\ execStatus'[r].fallbackReason = fallbackReason'
         /\ result'[r].executionPath = "openai_api" => pc[r] = "secondary"
         /\ result'[r].executionPath = "codex_cli" => contains(invoked'[r], "P")

\* C28, amended: the step that sends a call to Secondary leaves flag and
\* reason set, only a reset clears the flag while the call is with
\* Secondary, and the status that accompanies a returned outcome is the
\* manager's at that moment; an openai_api outcome comes from a call that
\* was with Secondary, a codex_cli outcome from one that invoked Primary.
C28_ProvenanceUnlessReset == [][C28_Step]_vars

\* a call has returned through Secondary after a reset cleared the flag
\* while it was in flight
C28_Witness ==
  \E r \in Reqs :
    /\ pc[r] = "executed" /\ result[r].executionPath = "openai_api"
    /\ invoked[r] = <<"S">>
    /\ ~execStatus[r].fallbackTriggered /\ execStatus[r].read

\* the call of r ended with the timeout failure of Primary
timeoutFailure(r) ==
  /\ ~result[r].success /\ ~result[r].quotaExhausted
  /\ result[r].error = "Codex CLI timed out"
  /\ result[r].executionPath = "codex_cli"

C29_Step ==
  \A r \in Reqs :
    (closeSettles(r) /\ timedOut[r]) =>
      /\ pc'[r] = "executed" /\ timeoutFailure(r)'
      /\ invoked'[r] = <<"P">> /\ apiCall'[r] = apiCall[r]
      /\ UNCHANGED <<fallbackTriggered, fallbackReason>>

\* C29: a Primary process that the timeout terminated gives the timeout
\* failure with quotaExhausted false whatever it printed, quota phrases
\* included, and execute returns that outcome without invoking Secondary
\* and without touching the fallback flag.
C29_TimeoutBeforeQuota == [][C29_Step]_vars

\* timed out with a quota phrase captured and Secondary configured
C29_Witness ==
  \E r \in Reqs :
    /\ pc[r] = "executed" /\ timedOut[r] /\ child[r] = "closed"
    /\ quotaText(r) /\ openai
    /\ timeoutFailure(r) /\ invoked[r] = <<"P">>

running(r) == pc[r] \in {"primary", "secondary"}

C30_Once ==
  \A r \in Reqs :
    /\ (settled[r] /\ settled'[r]) => primaryResult'[r] = primaryResult[r]
    /\ (pc[r] = "executed" /\ pc'[r] = "executed") => result'[r] = result[r]
    /\ (running(r) /\ ~running(r)') => pc'[r] = "executed" /\ result'[r] # NoResult

\* C30: an execute call that has invoked a backend eventually returns,
\* given that timers fire, a signalled child closes and an aborted
\* completion settles; it leaves only by returning an outcome, the first
\* of the close and error events fixes the outcome of Primary, and a
\* returned outcome is not changed by later events.
C30_ReturnsOnce ==
  /\ \A r \in Solo : running(r) ~> pc[r] = "executed"
  /\ [][C30_Once]_vars

\* returned after the timeout, SIGTERM, the grace timer and SIGKILL
C30_Witness ==
  \E r \in Reqs :
    /\ pc[r] = "executed" /\ child[r] = "closed" /\ timedOut[r]
    /\ signals[r] = <<"SIGTERM", "SIGKILL">>
    /\ result[r].error = "Codex CLI timed out"
====
